---- MODULE Spec2Model ----
(***************************************************************************)
(* Lunar Lander: the terrain loader (GameInitialization.c), the collision  *)
(* and scoring functions and the frame loop (GameFunctions.c,              *)
(* Project03_01.c).                                                        *)
(*                                                                         *)
(* Numbers.  The C floats are modelled as exact rationals <<n, d>> in      *)
(* lowest terms (d > 0); float rounding error is not modelled.  Velocities *)
(* and real positions of the lander are integers in units of GRAVITY       *)
(* (0.005), so UnitsPerPixel units make one pixel.  Uint16 fields are kept *)
(* modulo 2^16.                                                            *)
(***************************************************************************)
EXTENDS Integers, Sequences, FiniteSets, TLC

VARIABLES
    pc,          \* position of the process
    exitCode,    \* code given to exit(), NoExit while running
    levelWidth,  \* state->levelWidth
    file,        \* the lines fscanf has consumed so far, in file order
    vertices,    \* the linked Vertex list, first to last
    prevX,       \* readVertexList's prevX
    fHeightMap,  \* buildHeightMap's float fHeightMap[levelWidth]
    heightMap,   \* terrain->heightMap
    flats,       \* the linked Flat list from terrain->firstFlat (<<>> is NULL)
    lander,      \* the Lander struct
    score,       \* state->score
    fuel,        \* state->fuel
    landingType, \* main's landingType buffer
    waitForEvent,\* waitForResponse's waitForEvent
    frames,      \* passes of the main loop completed so far
    focus,       \* state->realFocusPointX/Y, focusPointX/Y
    time,        \* state->timeStart, timeElapsed; showCollisionMessage's timeWaiting
    ticks,       \* what SDL_GetTicks returns now
    eventBuffer  \* waitForResponse's eventBuffer: the event SDL_WaitEvent stored

loadVars == <<levelWidth, file, vertices, prevX, fHeightMap, heightMap, flats>>
viewVars == <<focus, time, ticks>>
gameVars == <<lander, score, fuel, landingType, waitForEvent, frames, viewVars,
              eventBuffer>>
vars == <<pc, exitCode, loadVars, gameVars>>

-----------------------------------------------------------------------------
(* Program constants *)

EXIT_SUCCESS == 0
EXIT_SDLINIT_FAIL == 1
EXIT_SDLWAIT_FAIL == 2
EXIT_FOPEN_FAIL == 3
EXIT_BADFILE_FAIL == 4
EXIT_EMPTYFILE_FAIL == 5
EXIT_MAP_FAIL == 6
EXIT_SOUND_FAIL == 8
LEVEL_WIDTH == 900
WINDOW_HEIGHT == 500
FUEL_START == 1000
TOP_SCORE_TIER == 5
FLAT_LAND_BASE == 24
FLAT_LAND_INCREMENT == 8
LANDER_LENGTH == 20
LANDER_HEIGHT == 25
\* GRAVITY (0.005) is the unit of velocity; a pixel is 200 units
GRAVITY == 1
UnitsPerPixel == 200
\* UP_THRUST_POWER 0.04, LEFT_THRUST_POWER 0.1, RIGHT_THRUST_POWER 0.1
UP_THRUST_POWER == 8
LEFT_THRUST_POWER == 20
RIGHT_THRUST_POWER == 20
LANDING_THRESHOLD == 1
THRUST_FUEL_COST == 1
SCORE_FOR_LANDING == 100
CRASH_FUEL_COST == 200
\* 2^16, the modulus of a Uint16 field
Uint16Mod == 65536
\* timeStart = -1: the start time is not set yet.  The Uint32 time fields are
\* kept as integers, -1 standing for 2^32 - 1: the clock stays far below 2^32
TimeUnset == -1
WINDOW_WIDTH == 900
HORIZONTAL_SCROLL_THRESHOLD == 4
TOP_SCROLL_THRESHOLD == 8
BOTTOM_SCROLL_THRESHOLD == 2

\* exitCode while the process runs, and when it is killed by a memory fault
NoExit == -1
Fault == -2
\* eventBuffer while SDL_WaitEvent has stored nothing in it
NoEvent == "NONE"

-----------------------------------------------------------------------------
(* Bounds of the model *)

\* levelWidth of the scaled-down level
SmallWidth == 5
\* largest y of a vertex line of the scaled-down level
MaxY == 2
\* most lines a terrain file holds
MaxLines == 3
\* a value an uninitialized float cell may hold (besides the sentinel -1.0)
JunkValue == 3
\* most lines a terrain file of the LEVEL_WIDTH-wide level holds
MaxWideLines == 2
\* LANDER_X_START and LANDER_Y_START scaled down, in pixels
LanderXStart == 1
LanderYStart == 3
\* levelWidth of the level the game is played on
GameWidth == 60
\* presses of one key pending at one call of handleEvents (key repeat)
MaxRepeat == 12
\* passes of the main loop followed from an initial state
MaxFrames == 2
\* milliseconds SDL_framerateDelay lets pass, and the longest wait for an
\* event that is followed
FrameMs == 1
MaxWaitMs == 1

-----------------------------------------------------------------------------
(* Exact rationals standing for the C floats *)

Abs(n) == IF n < 0 THEN -n ELSE n

RECURSIVE GCD(_, _)
GCD(a, b) == IF b = 0 THEN a ELSE GCD(b, a % b)

Rat(n, d) ==
    LET g == GCD(Abs(n), Abs(d))
        s == IF d < 0 THEN -1 ELSE 1
    IN  <<(s * n) \div g, (s * d) \div g>>

RInt(n) == <<n, 1>>
RAdd(a, b) == Rat(a[1] * b[2] + b[1] * a[2], a[2] * b[2])
\* ceil() of math.h
Ceil(a) == -((-a[1]) \div a[2])
\* the sentinel -1.0 of buildSlopeMap
MinusOne == RInt(-1)

Max(a, b) == IF a >= b THEN a ELSE b

-----------------------------------------------------------------------------
(* The terrain file *)

\* a line fscanf parses as two integers
VertexLine(x, y) == [ok |-> TRUE, X |-> x, Y |-> y]
\* a line fscanf does not parse as two integers
MalformedLine == [ok |-> FALSE, X |-> 0, Y |-> 0]

\* x coordinates the lines of a LEVEL_WIDTH-wide terrain file are drawn from
WideXs == {0, 10, 24, 80, LEVEL_WIDTH - 1}

\* the lines a terrain file of a level of width W is made of
Lines(W) ==
    IF W = LEVEL_WIDTH
    THEN {VertexLine(x, y) : x \in WideXs, y \in {0, 1}}
    ELSE {VertexLine(x, y) : x \in -1..W, y \in -1..MaxY}

\* most lines of a terrain file of a level of width W
MaxLinesAt(W) == IF W = LEVEL_WIDTH THEN MaxWideLines ELSE MaxLines

\* the vertices read from the file, in file order
ReadVertices(f) ==
    LET RECURSIVE Sel(_)
        Sel(i) == IF i > Len(f) THEN <<>>
                  ELSE IF f[i].ok THEN <<[X |-> f[i].X, Y |-> f[i].Y]>> \o Sel(i + 1)
                  ELSE Sel(i + 1)
    IN  Sel(1)

-----------------------------------------------------------------------------
(* freeVertexList: the outcomes of freeing the partially built list.       *)
(* first->next is NULL until a second node is linked (main sets it), and   *)
(* prev->next is then read through the null pointer.  Otherwise the last   *)
(* allocated node's next was never assigned: the walk ends cleanly only if *)
(* that malloc'ed word happens to be NULL.                                 *)
FreeVertexListOutcomes(vs) ==
    IF Len(vs) <= 1 THEN {"fault"} ELSE {"freed", "fault"}

-----------------------------------------------------------------------------
(* buildSlopeMap *)

\* the arrays float fHeightMap[levelWidth], slopeMap[levelWidth] as the stack
\* leaves them: cell k of fHeightMap holds -1.0 (k = W: no cell does), every
\* other cell holds junk, every cell of slopeMap holds js
StackGarbage(W, k, js) ==
    [f |-> [x \in 0..(W - 1) |-> IF x = k THEN MinusOne ELSE RInt(JunkValue)],
     s |-> [x \in 0..(W - 1) |-> RInt(js)]]

\* the inner while of the undefined-slope branch, from node j with maxY so
\* far: the node the run ends at and the largest Y seen; fault when
\* current->next is NULL (the run ends the list)
RECURSIVE RunEnd(_, _, _)
RunEnd(vs, j, maxY) ==
    IF j = Len(vs) THEN [fault |-> TRUE, j |-> j, maxY |-> maxY]
    ELSE IF vs[j].X = vs[j + 1].X
         THEN RunEnd(vs, j + 1, Max(maxY, vs[j + 1].Y))
         ELSE [fault |-> FALSE, j |-> j, maxY |-> maxY]

\* slopeMap[x] = slope for lo <= x < hi
FillSlope(s, lo, hi, slope) ==
    [x \in DOMAIN s |-> IF lo <= x /\ x < hi THEN slope ELSE s[x]]

\* the outer while of buildSlopeMap from node i
RECURSIVE SlopeFrom(_, _, _, _, _)
SlopeFrom(vs, i, s, f, W) ==
    IF i = Len(vs) THEN [fault |-> FALSE, s |-> s, f |-> f]
    ELSE IF vs[i].X = vs[i + 1].X
    THEN LET r == RunEnd(vs, i + 1, Max(vs[i].Y, vs[i + 1].Y))
             cx == vs[r.j].X
             f1 == [f EXCEPT ![cx] = RInt(r.maxY)]
             f2 == IF cx < W - 1 THEN [f1 EXCEPT ![cx + 1] = MinusOne] ELSE f1
             s1 == [s EXCEPT ![cx] = RInt(0)]
         IN  IF r.fault THEN [fault |-> TRUE, s |-> s, f |-> f]
             ELSE LET slope == Rat(vs[r.j + 1].Y - vs[r.j].Y,
                                   vs[r.j + 1].X - vs[r.j].X)
                  IN  SlopeFrom(vs, r.j + 1,
                                FillSlope(s1, cx + 1, vs[r.j + 1].X, slope), f2, W)
    ELSE LET slope == Rat(vs[i + 1].Y - vs[i].Y, vs[i + 1].X - vs[i].X)
         IN  SlopeFrom(vs, i + 1, FillSlope(s, vs[i].X, vs[i + 1].X, slope), f, W)

buildSlopeMap(slopeMap, fHMap, vs, W) == SlopeFrom(vs, 1, slopeMap, fHMap, W)

-----------------------------------------------------------------------------
(* buildFHeightMap *)

\* one pass of the for loop at column x; st.x is the loop variable, so a
\* column the undefined-slope branch stepped over (x++) is left alone
FHeightStep(x, st, s, W) ==
    IF x < st.x THEN st
    ELSE IF s[x] = RInt(0) /\ x < W - 1 /\ st.f[x + 1] = MinusOne
         THEN [f |-> [st.f EXCEPT ![x + 1] = RAdd(st.f[x], s[x + 1])], x |-> x + 2]
         ELSE [f |-> [st.f EXCEPT ![x] = RAdd(st.f[x - 1], s[x - 1])], x |-> x + 1]

\* the passes for columns lo..hi in order
RECURSIVE FHeightLoop(_, _, _, _, _)
FHeightLoop(lo, hi, st, s, W) ==
    IF lo > hi THEN st
    ELSE IF lo = hi THEN FHeightStep(lo, st, s, W)
    ELSE LET mid == (lo + hi) \div 2
         IN  CHOOSE r \in {FHeightLoop(mid + 1, hi, g, s, W) :
                             g \in {FHeightLoop(lo, mid, st, s, W)}} : TRUE

\* first->X = 0 is checked by the caller (EXIT_MAP_FAIL)
buildFHeightMap(fHMap, slopeMap, vs, W) ==
    FHeightLoop(1, W - 1, [f |-> [fHMap EXCEPT ![0] = RInt(vs[1].Y)], x |-> 1],
                slopeMap, W).f

\* (Uint16)(ceil(h)): the conversion of a value outside 0..65535 is undefined;
\* it wraps modulo 2^16 (x86 cvttsd2si and truncation) or saturates
ToUint16(c, mode) ==
    IF 0 <= c /\ c < Uint16Mod THEN c
    ELSE IF mode = "wrap" THEN c % Uint16Mod
    ELSE IF c < 0 THEN 0 ELSE Uint16Mod - 1

-----------------------------------------------------------------------------
(* findLandingStrips *)

\* the score modifier as the Uint16 field ends up holding it
ScoreModifier(length) ==
    LET m0 == IF length < FLAT_LAND_BASE
              THEN TOP_SCORE_TIER + 1
              ELSE (TOP_SCORE_TIER
                      - ((length - FLAT_LAND_BASE) \div FLAT_LAND_INCREMENT))
                     % Uint16Mod
        m1 == IF m0 < 1 THEN 1 ELSE m0
    IN  IF m1 > TOP_SCORE_TIER THEN 0 ELSE m1

\* the inner while: the last node from e on with the same Y
RECURSIVE FlatEnd(_, _)
FlatEnd(vs, e) ==
    IF e < Len(vs) /\ vs[e + 1].Y = vs[e].Y THEN FlatEnd(vs, e + 1) ELSE e

\* the outer while from node i: the Flats filled in, in list order
RECURSIVE StripsFrom(_, _)
StripsFrom(vs, i) ==
    IF i >= Len(vs) THEN <<>>
    ELSE IF vs[i].Y = vs[i + 1].Y
    THEN LET e == FlatEnd(vs, i + 1)
             len == (vs[e].X - vs[i].X) % Uint16Mod
         IN  <<[X |-> vs[i].X, Y |-> vs[i].Y, length |-> len,
                scoreModifier |-> ScoreModifier(len)]>> \o StripsFrom(vs, e)
    ELSE StripsFrom(vs, i + 1)

\* the Flat list terrain->firstFlat is left pointing to (<<>>: NULL)
findLandingStrips(vs) == StripsFrom(vs, 1)

-----------------------------------------------------------------------------
(* The state main hands to readVertexList *)

\* the Lander as initializeGameState, hardReset and softReset fill it
StartLander ==
    [realX |-> LanderXStart * UnitsPerPixel, realY |-> LanderYStart * UnitsPerPixel,
     X |-> LanderXStart, Y |-> LanderYStart,
     length |-> LANDER_LENGTH, height |-> LANDER_HEIGHT,
     horVelocity |-> 0, vertVelocity |-> 0]

\* the focus point as initializeGameState, hardReset and softReset set it
StartFocus ==
    [realX |-> 0, realY |-> WINDOW_HEIGHT * UnitsPerPixel, X |-> 0, Y |-> WINDOW_HEIGHT]

\* the time fields as initializeGameState sets them
StartTime == [start |-> TimeUnset, elapsed |-> 0, waiting |-> 0]

\* main's firstFlat before findLandingStrips
StaticFirstFlat == [X |-> 0, Y |-> 0, length |-> 0, scoreModifier |-> Uint16Mod - 1]

InitLoadAt(W) ==
    /\ pc = "open"
    /\ exitCode = NoExit
    /\ levelWidth = W
    /\ file = <<>>
    /\ vertices = <<>>
    /\ prevX = -1
    /\ fHeightMap = <<>>
    /\ heightMap = <<>>
    /\ flats = <<StaticFirstFlat>>
    /\ lander = StartLander
    /\ score = 0
    /\ fuel = 0
    /\ landingType = 0
    /\ waitForEvent = FALSE
    /\ frames = 0
    /\ focus = StartFocus
    /\ time = StartTime
    /\ ticks = 0
    /\ eventBuffer = NoEvent

\* the scaled-down level
Init == InitLoadAt(SmallWidth)
\* the level of the program, LEVEL_WIDTH wide
InitWide == InitLoadAt(LEVEL_WIDTH)

-----------------------------------------------------------------------------
(* readVertexList *)

Exit(code) == pc' = "exit" /\ exitCode' = code
Crash == pc' = "fault" /\ exitCode' = Fault

\* fopen
OpenFile ==
    /\ pc = "open"
    /\ \E opened \in BOOLEAN :
         IF opened THEN pc' = "read" /\ exitCode' = exitCode
         ELSE Exit(EXIT_FOPEN_FAIL)
    /\ UNCHANGED <<loadVars, gameVars>>

\* a bad vertex: fclose, freeVertexList(first), exit(EXIT_BADFILE_FAIL)
RejectVertex ==
    /\ \E outcome \in FreeVertexListOutcomes(vertices) :
         IF outcome = "freed" THEN Exit(EXIT_BADFILE_FAIL) ELSE Crash
    /\ UNCHANGED <<vertices, prevX>>

\* the list after the loop body has linked vertex (x, y)
LinkVertex(vs, pX, x, y) ==
    IF pX = -1
    THEN IF x # 0 THEN <<[X |-> 0, Y |-> 0], [X |-> x, Y |-> y]>>
                  ELSE <<[X |-> x, Y |-> y]>>
    ELSE Append(vs, [X |-> x, Y |-> y])

\* one pass of the while loop: fscanf returned 2
ReadVertex(line) ==
    /\ pc = "read"
    /\ Len(file) < MaxLinesAt(levelWidth)
    /\ line.ok
    /\ file' = Append(file, line)
    /\ IF line.X < 0 \/ line.Y < 0 \/ line.X >= levelWidth THEN RejectVertex
       ELSE IF line.X < prevX THEN RejectVertex
       ELSE /\ vertices' = LinkVertex(vertices, prevX, line.X, line.Y)
            /\ prevX' = IF prevX = -1 THEN line.X ELSE prevX
            /\ UNCHANGED <<pc, exitCode>>
    /\ UNCHANGED <<levelWidth, fHeightMap, heightMap, flats, gameVars>>

\* a closing rule that looks at the last x only
CloseListByX(vs, W) ==
    IF vs[Len(vs)].X # W - 1
    THEN Append(vs, [X |-> W - 1, Y |-> vs[1].Y])
    ELSE vs

\* the list with the closing vertex readVertexList appends when it must
CloseList(vs, W) ==
    IF vs[Len(vs)].X # W - 1 \/ vs[Len(vs)].Y # vs[1].Y
    THEN Append(vs, [X |-> W - 1, Y |-> vs[1].Y])
    ELSE vs

\* an end of the read that reports a file without vertices as a bad file
EndOfReadAsBadFile ==
    /\ pc = "read"
    /\ \E malformed \in BOOLEAN :
         /\ malformed => Len(file) < MaxLinesAt(levelWidth)
         /\ file' = IF malformed THEN Append(file, MalformedLine) ELSE file
    /\ IF vertices = <<>>
       THEN Exit(EXIT_BADFILE_FAIL) /\ UNCHANGED vertices
       ELSE /\ vertices' = CloseList(vertices, levelWidth)
            /\ pc' = "build"
            /\ UNCHANGED exitCode
    /\ UNCHANGED <<levelWidth, prevX, fHeightMap, heightMap, flats, gameVars>>

\* fscanf did not return 2 (end of file, or a line that is not two integers):
\* the rest of readVertexList
EndOfRead ==
    /\ pc = "read"
    /\ \E malformed \in BOOLEAN :
         /\ malformed => Len(file) < MaxLinesAt(levelWidth)
         /\ file' = IF malformed THEN Append(file, MalformedLine) ELSE file
    /\ IF vertices = <<>>
       THEN Exit(EXIT_EMPTYFILE_FAIL) /\ UNCHANGED vertices
       ELSE /\ vertices' = CloseList(vertices, levelWidth)
            /\ pc' = "build"
            /\ UNCHANGED exitCode
    /\ UNCHANGED <<levelWidth, prevX, fHeightMap, heightMap, flats, gameVars>>

-----------------------------------------------------------------------------
(* buildHeightMap after readVertexList, and the rest of initializeGameState *)

\* the fHeightMap cell the stack left holding -1.0 (W: none)
GarbageCells(W) == IF W = LEVEL_WIDTH THEN {1, W} ELSE 0..W

\* the height map buildHeightMap's last loop stores
RoundHeightMap(fh, W, mode) == [x \in 0..(W - 1) |-> ToUint16(Ceil(fh[x]), mode)]

BuildHeightMap ==
    /\ pc = "build"
    /\ \E k \in GarbageCells(levelWidth), js \in {0, JunkValue} :
       \E sl \in {buildSlopeMap(StackGarbage(levelWidth, k, js).s,
                                StackGarbage(levelWidth, k, js).f,
                                vertices, levelWidth)} :
         IF sl.fault
         THEN Crash /\ UNCHANGED <<fHeightMap, heightMap>>
         ELSE IF vertices[1].X # 0
         THEN Exit(EXIT_MAP_FAIL) /\ UNCHANGED <<fHeightMap, heightMap>>
         ELSE \E fh \in {buildFHeightMap(sl.f, sl.s, vertices, levelWidth)},
                 mode \in {"wrap", "saturate"} :
                /\ fHeightMap' = fh
                /\ heightMap' = RoundHeightMap(fh, levelWidth, mode)
                /\ pc' = "strips"
                /\ UNCHANGED exitCode
    /\ UNCHANGED <<levelWidth, file, vertices, prevX, flats, gameVars>>

FindLandingStrips ==
    /\ pc = "strips"
    /\ flats' = findLandingStrips(vertices)
    /\ score' = 0
    /\ fuel' = FUEL_START
    /\ focus' = StartFocus
    /\ time' = StartTime
    /\ pc' = "loaded"
    /\ UNCHANGED <<exitCode, levelWidth, file, vertices, prevX, fHeightMap,
                   heightMap, lander, landingType, waitForEvent, frames, ticks,
                   eventBuffer>>

NextLoad ==
    \/ OpenFile
    \/ \E line \in Lines(levelWidth) : ReadVertex(line)
    \/ EndOfRead
    \/ BuildHeightMap
    \/ FindLandingStrips

Spec == Init /\ [][NextLoad]_vars
SpecWide == InitWide /\ [][NextLoad]_vars

-----------------------------------------------------------------------------
(* The game: the state at the top of the main loop *)

\* terrain files the game is played on: a gentle rise to a landing strip,
\* a flat level, a valley with a strip, and a level without any strip
GameFiles ==
    <<  <<VertexLine(0, 0), VertexLine(30, 1), VertexLine(54, 1)>>,
        <<VertexLine(0, 0), VertexLine(59, 0)>>,
        <<VertexLine(0, 2), VertexLine(20, 0), VertexLine(44, 0)>>,
        <<VertexLine(0, 0), VertexLine(30, 2)>>  >>

\* readVertexList on a file all of whose lines are accepted
RECURSIVE ReadFrom(_, _, _, _)
ReadFrom(f, i, vs, pX) ==
    IF i > Len(f) THEN vs
    ELSE ReadFrom(f, i + 1, LinkVertex(vs, pX, f[i].X, f[i].Y),
                  IF pX = -1 THEN f[i].X ELSE pX)

\* initializeGameState's terrain for such a file, the stack holding no -1.0
LoadedTerrain(f, W) ==
    LET vs == CloseList(ReadFrom(f, 1, <<>>, -1), W)
        g  == StackGarbage(W, W, JunkValue)
        sl == buildSlopeMap(g.s, g.f, vs, W)
        fh == buildFHeightMap(sl.f, sl.s, vs, W)
    IN  [vertices |-> vs, fHeightMap |-> fh,
         heightMap |-> RoundHeightMap(fh, W, "wrap"),
         flats |-> findLandingStrips(vs)]

\* where earlier passes of the loop may have brought the lander (pixels,
\* velocity units); the first of each is the value initializeGameState sets
GameXs == {LanderXStart, 31, 56}
GameYs == {LanderYStart, 1}
GameHVs == {0, 220, 400, -300, -(GameWidth + 5) * UnitsPerPixel}
GameVVs == {0, -1, -200, -450}
GameFuels == {FUEL_START, 1, CRASH_FUEL_COST}

GameLanders ==
    {[realX |-> x * UnitsPerPixel, realY |-> y * UnitsPerPixel, X |-> x, Y |-> y,
      length |-> LANDER_LENGTH, height |-> LANDER_HEIGHT,
      horVelocity |-> h, vertVelocity |-> v] :
        x \in GameXs, y \in GameYs, h \in GameHVs, v \in GameVVs}

InitGame ==
    /\ pc = "events"
    /\ exitCode = NoExit
    /\ levelWidth = GameWidth
    /\ \E t \in 1..Len(GameFiles) :
         \E T \in {LoadedTerrain(GameFiles[t], GameWidth)} :
            /\ file = GameFiles[t]
            /\ prevX = GameFiles[t][1].X
            /\ vertices = T.vertices
            /\ fHeightMap = T.fHeightMap
            /\ heightMap = T.heightMap
            /\ flats = T.flats
    /\ lander \in GameLanders
    /\ score = 0
    /\ fuel \in GameFuels
    /\ landingType \in {1, 2}
    /\ waitForEvent = FALSE
    /\ frames = 0
    /\ focus = StartFocus
    /\ ticks = FrameMs
    /\ eventBuffer = NoEvent
    \* the start time is unset only before the first tick of a game
    /\ time \in {[StartTime EXCEPT !.start = 0, !.elapsed = ticks]}
                 \cup (IF lander = StartLander /\ fuel = FUEL_START
                       THEN {StartTime} ELSE {})

-----------------------------------------------------------------------------
(* cleanAndExit: freeVertexList walks a NULL-terminated list of at least   *)
(* two nodes; freeFlatList reads first->next, through NULL when            *)
(* findLandingStrips found no strip                                        *)
CleanAndExit(code) == IF flats = <<>> THEN Crash ELSE Exit(code)

-----------------------------------------------------------------------------
(* handleEvents and handleKey *)

Events == {"UP", "LEFT", "RIGHT", "KEY", "MOUSE", "OTHER", "QUIT"}
ArrowKeys == {"UP", "LEFT", "RIGHT"}

\* the events pending at one call of handleEvents
Batches ==
    {<<>>} \cup {<<e>> : e \in Events}
           \cup {[i \in 1..MaxRepeat |-> k] : k \in ArrowKeys}

\* a handleKey that thrusts without looking at the fuel
handleKeyUngated(st, key) ==
    IF key \in ArrowKeys
    THEN [lander |->
            CASE key = "UP" ->
                   [st.lander EXCEPT !.vertVelocity = @ + UP_THRUST_POWER]
              [] key = "RIGHT" ->
                   [st.lander EXCEPT !.horVelocity = @ - RIGHT_THRUST_POWER]
              [] key = "LEFT" ->
                   [st.lander EXCEPT !.horVelocity = @ + LEFT_THRUST_POWER],
          fuel |-> (st.fuel - THRUST_FUEL_COST) % Uint16Mod]
    ELSE st

\* st = [lander, fuel]
handleKey(st, key) ==
    IF key \in ArrowKeys /\ st.fuel >= THRUST_FUEL_COST
    THEN [lander |->
            CASE key = "UP" ->
                   [st.lander EXCEPT !.vertVelocity = @ + UP_THRUST_POWER]
              [] key = "RIGHT" ->
                   [st.lander EXCEPT !.horVelocity = @ - RIGHT_THRUST_POWER]
              [] key = "LEFT" ->
                   [st.lander EXCEPT !.horVelocity = @ + LEFT_THRUST_POWER],
          fuel |-> st.fuel - THRUST_FUEL_COST]
    ELSE st

\* the loop of handleEvents from event i of the batch: [lander, fuel, run]
RECURSIVE PollEvents(_, _, _)
PollEvents(batch, i, st) ==
    IF i > Len(batch) THEN [lander |-> st.lander, fuel |-> st.fuel, run |-> TRUE]
    ELSE IF batch[i] = "QUIT"
         THEN [lander |-> st.lander, fuel |-> st.fuel, run |-> FALSE]
    ELSE IF batch[i] \in ArrowKeys \cup {"KEY"}
         THEN PollEvents(batch, i + 1, handleKey(st, batch[i]))
    ELSE PollEvents(batch, i + 1, st)

HandleEvents ==
    /\ pc = "events"
    /\ frames < MaxFrames
    /\ \E batch \in Batches :
         \E r \in {PollEvents(batch, 1, [lander |-> lander, fuel |-> fuel])} :
            /\ lander' = r.lander
            /\ fuel' = r.fuel
            /\ IF r.run THEN pc' = "tick" /\ UNCHANGED exitCode
               ELSE CleanAndExit(EXIT_SUCCESS)
    /\ UNCHANGED <<loadVars, score, landingType, waitForEvent, frames, viewVars,
                   eventBuffer>>

-----------------------------------------------------------------------------
(* applyTick *)

\* (int) of a float: truncation toward zero, in pixels
TruncPixels(r) ==
    IF r >= 0 THEN r \div UnitsPerPixel ELSE -((-r) \div UnitsPerPixel)

\* a wrap by one level width at most
WrapOnce(rx, W) ==
    IF rx < 0 THEN rx + W * UnitsPerPixel
    ELSE IF rx >= W * UnitsPerPixel THEN rx - W * UnitsPerPixel
    ELSE rx

\* the two while loops wrapping realX into the level
RECURSIVE WrapX(_, _)
WrapX(rx, W) ==
    IF rx < 0 THEN WrapX(rx + W * UnitsPerPixel, W)
    ELSE IF rx >= W * UnitsPerPixel THEN WrapX(rx - W * UnitsPerPixel, W)
    ELSE rx

\* a tick that moves the lander without wrapping realX
applyTickNoWrap(l, W) ==
    LET vv == l.vertVelocity - GRAVITY
        rx == l.realX + l.horVelocity
        ry == l.realY + vv
    IN  [l EXCEPT !.vertVelocity = vv, !.realX = rx, !.realY = ry,
                  !.X = TruncPixels(rx) % Uint16Mod,
                  !.Y = TruncPixels(ry) % Uint16Mod]

applyTick(l, W) ==
    LET vv == l.vertVelocity - GRAVITY
        rx == WrapX(l.realX + l.horVelocity, W)
        ry == l.realY + vv
    IN  [l EXCEPT !.vertVelocity = vv, !.realX = rx, !.realY = ry,
                  !.X = TruncPixels(rx) % Uint16Mod,
                  !.Y = TruncPixels(ry) % Uint16Mod]

\* the loops of scrollFocusPoint wrapping realFocusPointX
RECURSIVE WrapDown(_, _)
WrapDown(rx, W) == IF rx >= W * UnitsPerPixel THEN WrapDown(rx - W * UnitsPerPixel, W) ELSE rx
RECURSIVE WrapUp(_, _)
WrapUp(rx, W) == IF rx < 0 THEN WrapUp(rx + W * UnitsPerPixel, W) ELSE rx

\* scrollFocusPoint, for the lander l applyTick has moved
scrollFocusPoint(fp, l, W) ==
    LET right == IF /\ l.X + (WINDOW_WIDTH \div HORIZONTAL_SCROLL_THRESHOLD)
                         >= (fp.X + WINDOW_WIDTH) % (W + 1)
                    /\ l.horVelocity > 0
                 THEN [fp EXCEPT !.realX = WrapDown(fp.realX + l.horVelocity, W),
                                 !.X = TruncPixels(WrapDown(fp.realX + l.horVelocity, W))]
                 ELSE fp
        left ==  IF /\ l.X - (WINDOW_WIDTH \div HORIZONTAL_SCROLL_THRESHOLD) <= right.X
                    /\ l.horVelocity < 0
                 THEN [right EXCEPT !.realX = WrapUp(right.realX + l.horVelocity, W),
                                    !.X = TruncPixels(WrapUp(right.realX + l.horVelocity, W))]
                 ELSE right
        moved == [left EXCEPT !.realY = left.realY + l.vertVelocity,
                              !.Y = TruncPixels(left.realY + l.vertVelocity) % Uint16Mod]
    IN  IF l.Y + (WINDOW_HEIGHT \div TOP_SCROLL_THRESHOLD) >= left.Y
        THEN IF l.vertVelocity > 0 THEN moved ELSE left
        ELSE IF l.Y - (WINDOW_HEIGHT \div BOTTOM_SCROLL_THRESHOLD)
                  <= left.Y - WINDOW_HEIGHT
        THEN IF l.vertVelocity < 0 THEN moved ELSE left
        ELSE left

\* the time fields after applyTick, SDL_GetTicks returning now
TickTime(t, now) ==
    LET start == IF t.start = TimeUnset THEN now ELSE t.start
    IN  [t EXCEPT !.start = start, !.elapsed = now - start]

ApplyTick ==
    /\ pc = "tick"
    /\ lander' = applyTick(lander, levelWidth)
    /\ focus' = scrollFocusPoint(focus, lander', levelWidth)
    /\ time' = TickTime(time, ticks)
    /\ pc' = "collide"
    /\ UNCHANGED <<exitCode, loadVars, score, fuel, landingType, waitForEvent,
                   frames, ticks, eventBuffer>>

-----------------------------------------------------------------------------
(* collisionDetected *)

\* vertVelocity^2 + horVelocity^2, in squared velocity units
SpeedSquared(l) == l.vertVelocity * l.vertVelocity + l.horVelocity * l.horVelocity

\* (int)(getVelocity(state)) <= LANDING_THRESHOLD: the square root truncated
\* toward zero is at most 1 exactly when the speed is below 2
isLandingSpeed(l) ==
    SpeedSquared(l) < (LANDING_THRESHOLD + 1) * (LANDING_THRESHOLD + 1)
                        * UnitsPerPixel * UnitsPerPixel

isFlatLand(hm, x1, x2, x3) == hm[x1] = hm[x2] /\ hm[x1] = hm[x3]

\* a test of the left sample alone
collisionAtLeftOnly(l, hm, W, buffer) ==
    IF l.Y <= hm[l.X]
    THEN [collision |-> TRUE,
          landingType |-> IF /\ isLandingSpeed(l)
                             /\ isFlatLand(hm, l.X, (l.X + (l.length \div 2)) % W,
                                           (l.X + l.length) % W)
                          THEN 1 ELSE 2]
    ELSE [collision |-> FALSE, landingType |-> buffer]

\* [collision, landingType]: the buffer is written only on a collision
collisionDetected(l, hm, W, buffer) ==
    LET leftX == l.X
        middleX == (leftX + (l.length \div 2)) % W
        rightX == (leftX + l.length) % W
        Hit(x) == x >= 0 /\ x < W /\ l.Y <= hm[x]
        kind == IF isLandingSpeed(l) /\ isFlatLand(hm, leftX, middleX, rightX)
                THEN 1 ELSE 2
    IN  IF Hit(leftX) THEN [collision |-> TRUE, landingType |-> kind]
        ELSE IF Hit(middleX) THEN [collision |-> TRUE, landingType |-> kind]
        ELSE IF Hit(rightX) THEN [collision |-> TRUE, landingType |-> kind]
        ELSE [collision |-> FALSE, landingType |-> buffer]

CollisionDetected ==
    /\ pc = "collide"
    /\ \E r \in {collisionDetected(lander, heightMap, levelWidth, landingType)} :
         /\ landingType' = r.landingType
         /\ pc' = IF r.collision THEN "apply" ELSE "draw"
    /\ UNCHANGED <<exitCode, loadVars, lander, score, fuel, waitForEvent, frames,
                   viewVars, eventBuffer>>

\* getAltitude, as drawStandardInfo shows it
getAltitude(l, hm, W) == l.Y - hm[(l.X + (l.length \div 2)) % W]

-----------------------------------------------------------------------------
(* applyCollision, showCollisionMessage, waitForResponse *)

\* the while loop of applyCollision from Flat i: the modifier awarded
RECURSIVE LandingModifier(_, _, _)
LandingModifier(fl, i, x) ==
    IF i > Len(fl) THEN 0
    ELSE IF fl[i].X + fl[i].length < x THEN LandingModifier(fl, i + 1, x)
    ELSE fl[i].scoreModifier

ApplyCollision ==
    /\ pc = "apply"
    /\ IF landingType = 1
       THEN /\ score' = (score + SCORE_FOR_LANDING
                                   * LandingModifier(flats, 1, lander.X)) % Uint16Mod
            /\ UNCHANGED fuel
            /\ time' = [time EXCEPT !.waiting = ticks]
            /\ pc' = "wait" /\ waitForEvent' = TRUE
       ELSE IF landingType = 2
       THEN /\ fuel' = (fuel - CRASH_FUEL_COST) % Uint16Mod
            /\ UNCHANGED score
            /\ time' = [time EXCEPT !.waiting = ticks]
            /\ pc' = "wait" /\ waitForEvent' = TRUE
       ELSE /\ pc' = "reset"
            /\ UNCHANGED <<score, fuel, waitForEvent, time>>
    /\ UNCHANGED <<exitCode, loadVars, lander, landingType, frames, focus, ticks,
                   eventBuffer>>

\* a switch that lets every event but an arrow key end the wait
keepsWaitingOnArrows(ev) == ev \in ArrowKeys

\* the switch of waitForResponse: the event leaves waitForEvent true
keepsWaiting(ev) == ev \notin {"KEY", "MOUSE"}

\* one return of SDL_WaitEvent inside waitForResponse, after `waited`
\* milliseconds, and what the loop does with it: once waitForEvent is false
\* the loop ends on the next event, and showCollisionMessage moves timeStart
\* by the time spent waiting
WaitForResponse ==
    /\ pc = "wait"
    /\ \E ok \in BOOLEAN, ev \in Events, waited \in {0, FrameMs} :
         /\ waited > 0 => ticks - time.waiting < MaxWaitMs
         /\ ticks' = ticks + waited
         /\ IF ~ok
            THEN /\ CleanAndExit(EXIT_SDLWAIT_FAIL)
                 /\ UNCHANGED <<waitForEvent, time, eventBuffer>>
            ELSE IF ~waitForEvent
            THEN /\ eventBuffer' = ev
                 /\ pc' = "reset"
                 /\ time' = [time EXCEPT
                               !.start = @ + (ticks' - time.waiting)]
                 /\ UNCHANGED <<exitCode, waitForEvent>>
            ELSE IF ev = "QUIT"
            THEN /\ eventBuffer' = ev
                 /\ CleanAndExit(EXIT_SUCCESS)
                 /\ UNCHANGED <<waitForEvent, time>>
            ELSE /\ eventBuffer' = ev
                 /\ waitForEvent' = keepsWaiting(ev)
                 /\ UNCHANGED <<pc, exitCode, time>>
    /\ UNCHANGED <<loadVars, lander, score, fuel, landingType, frames, focus>>

-----------------------------------------------------------------------------
(* gameOver, hardReset, softReset, and the end of a pass of the main loop *)

\* a test that does not look for the wrapped counter
gameOverAtZero(f) == f <= 0

\* a test that looks for the wrapped counter only
gameOverWrappedOnly(f) == f > FUEL_START

gameOver(f) == f <= 0 \/ f > FUEL_START

\* the fields of the GameState the resets write, as one record
GameStateNow ==
    [lander |-> lander, focus |-> focus, time |-> time, score |-> score,
     fuel |-> fuel]

\* a reset that tops the fuel up instead of setting it
hardResetAdding(st) ==
    [st EXCEPT !.lander = StartLander,
               !.focus = StartFocus,
               !.score = 0,
               !.time = [@ EXCEPT !.start = TimeUnset, !.elapsed = 0],
               !.fuel = (@ + FUEL_START) % Uint16Mod]

hardReset(st) ==
    [st EXCEPT !.lander = StartLander,
               !.focus = StartFocus,
               !.score = 0,
               !.time = [@ EXCEPT !.start = TimeUnset, !.elapsed = 0],
               !.fuel = FUEL_START]

\* a respawn that also clears the score
softResetClearingScore(st) ==
    [st EXCEPT !.lander = StartLander,
               !.focus = StartFocus,
               !.score = 0]

\* a reset that leaves the lander where it is
softResetInPlace(st) ==
    [st EXCEPT !.focus = StartFocus]

softReset(st) ==
    [st EXCEPT !.lander = StartLander,
               !.focus = StartFocus]

\* main after applyCollision: hardReset if gameOver, else softReset
Reset ==
    /\ pc = "reset"
    /\ \E st \in {IF gameOver(fuel) THEN hardReset(GameStateNow)
                   ELSE softReset(GameStateNow)} :
         /\ lander' = st.lander
         /\ focus' = st.focus
         /\ time' = st.time
         /\ score' = st.score
         /\ fuel' = st.fuel
    \* waitForResponse has returned: its eventBuffer is gone
    /\ eventBuffer' = NoEvent
    /\ pc' = "draw"
    /\ UNCHANGED <<exitCode, loadVars, landingType, waitForEvent, frames, ticks>>

\* SDL_framerateDelay and draw
Draw ==
    /\ pc = "draw"
    /\ frames' = frames + 1
    /\ ticks' = ticks + FrameMs
    /\ pc' = "events"
    /\ UNCHANGED <<exitCode, loadVars, lander, score, fuel, landingType,
                   waitForEvent, focus, time, eventBuffer>>

NextGame ==
    \/ HandleEvents
    \/ ApplyTick
    \/ CollisionDetected
    \/ ApplyCollision
    \/ WaitForResponse
    \/ Reset
    \/ Draw

SpecGame == InitGame /\ [][NextGame]_vars

-----------------------------------------------------------------------------
(* Properties of the landing test *)

Loaded == pc \in {"strips", "loaded"}
ReadSucceeded == pc \in {"build", "strips", "loaded"}

\* the three columns collisionDetected samples
LeftX == lander.X
MiddleX == (lander.X + (lander.length \div 2)) % levelWidth
RightX == (lander.X + lander.length) % levelWidth
SamplesFlat == /\ heightMap[LeftX] = heightMap[MiddleX]
               /\ heightMap[LeftX] = heightMap[RightX]
\* sqrt(horVelocity^2 + vertVelocity^2) <= LANDING_THRESHOLD
WithinThreshold ==
    SpeedSquared(lander) <= LANDING_THRESHOLD * LANDING_THRESHOLD
                              * UnitsPerPixel * UnitsPerPixel

\* C1: when collisionDetected has reported a collision, the outcome is Landed
\* exactly when the Euclidean speed is at most LANDING_THRESHOLD and the three
\* sampled heights are equal; otherwise it is Crashed.
C1_LandedIffSlowAndFlat ==
    pc = "apply" =>
        /\ landingType \in {1, 2}
        /\ landingType = 1 <=> (WithinThreshold /\ SamplesFlat)

-----------------------------------------------------------------------------
(* Properties of the landing strips *)

\* C2: every strip of length L built by findLandingStrips has scoreModifier 0
\* when L < 24 and max(1, 5 - floor((L - 24) / 8)) when L >= 24, so every
\* strip of length 56 or more has tier 1.
C2_StripTier ==
    pc = "loaded" =>
        \A i \in 1..Len(flats) :
            flats[i].scoreModifier =
                IF flats[i].length < FLAT_LAND_BASE THEN 0
                ELSE Max(1, TOP_SCORE_TIER
                            - ((flats[i].length - FLAT_LAND_BASE)
                                 \div FLAT_LAND_INCREMENT))

FlatFile == <<VertexLine(0, 0), VertexLine(LEVEL_WIDTH - 1, 0)>>

\* C3: loading (0,0),(899,0) at levelWidth 900 adds no vertex, gives a height
\* map of zeros and exactly one strip, with X = 0, length 899, scoreModifier 1.
C3_FlatLevel ==
    (pc = "loaded" /\ levelWidth = LEVEL_WIDTH /\ file = FlatFile) =>
        /\ vertices = <<[X |-> 0, Y |-> 0], [X |-> LEVEL_WIDTH - 1, Y |-> 0]>>
        /\ \A x \in 0..(LEVEL_WIDTH - 1) : heightMap[x] = 0
        /\ Len(flats) = 1
        /\ flats[1].X = 0
        /\ flats[1].length = LEVEL_WIDTH - 1
        /\ flats[1].scoreModifier = 1

-----------------------------------------------------------------------------
(* Properties of the height map *)

\* C4: the height map of every accepted file has heightMap[0] equal to
\* heightMap[levelWidth - 1].
C4_WrapContinuity ==
    Loaded => heightMap[0] = heightMap[levelWidth - 1]

\* the columns holding a vertical run, the highest vertex of a column, and
\* the last vertex of the list at a column
RunColumns ==
    {vertices[i].X : i \in {j \in 1..(Len(vertices) - 1) :
                               vertices[j].X = vertices[j + 1].X}}
MaxYAt(x) ==
    CHOOSE m \in {vertices[i].Y : i \in {j \in 1..Len(vertices) : vertices[j].X = x}} :
        \A i \in 1..Len(vertices) : vertices[i].X = x => vertices[i].Y <= m
LastAt(x) ==
    CHOOSE i \in 1..Len(vertices) :
        /\ vertices[i].X = x
        /\ \A j \in 1..Len(vertices) : vertices[j].X = x => j <= i
\* the slope from the last vertex of the run at x to the vertex after it
OutgoingSlope(x) ==
    Rat(vertices[LastAt(x) + 1].Y - vertices[LastAt(x)].Y,
        vertices[LastAt(x) + 1].X - x)

\* C5: at every column x holding a vertical run heightMap[x] is the highest y
\* of the run, and heightMap[x + 1] is that height advanced by the outgoing
\* slope alone.
C5_VerticalRun ==
    Loaded =>
        \A x \in RunColumns :
            /\ heightMap[x] = MaxYAt(x)
            /\ (LastAt(x) < Len(vertices) /\ vertices[LastAt(x) + 1].X > x) =>
                  heightMap[x + 1] = Ceil(RAdd(RInt(MaxYAt(x)), OutgoingSlope(x)))

-----------------------------------------------------------------------------
(* Properties of readVertexList *)

\* C6: readVertexList rejects every file in which a vertex has x less than
\* the x of the vertex read before it, so the vertices of an accepted file
\* are non-decreasing in x.
C6_NonDecreasing ==
    ReadSucceeded =>
        \A i \in 1..(Len(vertices) - 1) : vertices[i].X <= vertices[i + 1].X

OutOfRange(line) ==
    line.ok /\ (line.X < 0 \/ line.Y < 0 \/ line.X >= levelWidth)

\* C7: once a vertex with x < 0, y < 0 or x >= levelWidth has been read, the
\* process has terminated with EXIT_BADFILE_FAIL, wherever in the file the
\* vertex stands.
C7_BadVertexExit ==
    (\E i \in 1..Len(file) : OutOfRange(file[i])) =>
        pc = "exit" /\ exitCode = EXIT_BADFILE_FAIL

\* C8: a malformed line after one or more valid vertex lines aborts the load
\* with an error code, and no terrain is built from the lines before it.
C8_MalformedFatal ==
    (Len(file) >= 2 /\ ~file[Len(file)].ok) =>
        /\ pc = "exit"
        /\ exitCode \in {EXIT_BADFILE_FAIL, EXIT_EMPTYFILE_FAIL, EXIT_MAP_FAIL}
        /\ heightMap = <<>>

-----------------------------------------------------------------------------
(* Properties of applyCollision *)

\* the strips whose span [X, X + length] contains column x
StripsContaining(x) ==
    {i \in 1..Len(flats) : flats[i].X <= x /\ x <= flats[i].X + flats[i].length}
ContainingModifier(x) ==
    IF StripsContaining(x) = {} THEN 0
    ELSE flats[CHOOSE i \in StripsContaining(x) : TRUE].scoreModifier

\* C9: on a Landed outcome applyCollision adds to score 100 times the
\* scoreModifier of the strip whose span contains lander.X, nothing when no
\* span contains it, and leaves fuel alone.
C9_LandingScore ==
    [][(pc = "apply" /\ landingType = 1) =>
          /\ score' = score + SCORE_FOR_LANDING * ContainingModifier(lander.X)
          /\ fuel' = fuel]_vars

-----------------------------------------------------------------------------
(* Properties of the vertex list *)

\* the list the rules of readVertexList give for the vertices rd of a file
Normalized(rd, W) ==
    LET body == IF rd[1].X # 0 THEN <<[X |-> 0, Y |-> 0]>> \o rd ELSE rd
    IN  IF rd[Len(rd)].X # W - 1 \/ rd[Len(rd)].Y # body[1].Y
        THEN Append(body, [X |-> W - 1, Y |-> body[1].Y])
        ELSE body

\* C10: after readVertexList succeeds the list is the vertices of the file in
\* file order, with (0,0) before them exactly when the first x is not 0 and
\* (levelWidth - 1, y of the first vertex) after them exactly when the last
\* read vertex is not that vertex; so the list starts at x = 0, ends at
\* x = levelWidth - 1 at the height it starts at, and buildFHeightMap never
\* exits with EXIT_MAP_FAIL.
C10_NormalizedList ==
    /\ exitCode # EXIT_MAP_FAIL
    /\ ReadSucceeded =>
          /\ vertices = Normalized(ReadVertices(file), levelWidth)
          /\ vertices[1].X = 0
          /\ vertices[Len(vertices)].X = levelWidth - 1
          /\ vertices[Len(vertices)].Y = vertices[1].Y

\* a file whose list got both a leading and a closing vertex
C10_BothSynthesized ==
    /\ pc = "loaded"
    /\ ReadVertices(file) # <<>>
    /\ Len(vertices) = Len(ReadVertices(file)) + 2

-----------------------------------------------------------------------------
(* Properties of the heights *)

\* C11: buildHeightMap gives every column of an accepted vertex list a
\* height, and the fractional height of every column is at least 0, so the
\* value stored is its ceiling and nothing negative is converted to Uint16.
C11_HeightsNonNegative ==
    Loaded =>
        /\ DOMAIN heightMap = 0..(levelWidth - 1)
        /\ \A x \in 0..(levelWidth - 1) :
              /\ fHeightMap[x][1] >= 0
              /\ heightMap[x] = Ceil(fHeightMap[x])

-----------------------------------------------------------------------------
(* Properties of collisionDetected *)

\* lander.Y is at or below the height map at one of the sampled columns
SampleHit == \E x \in {LeftX, MiddleX, RightX} : lander.Y <= heightMap[x]

\* C12: collisionDetected returns true exactly when lander.Y <= heightMap[s]
\* for one of the samples left, middle, right, with the same classification
\* whichever sample matched, and false when none matches.
C12_CollisionIffSample ==
    [][pc = "collide" =>
          IF SampleHit
          THEN /\ pc' = "apply"
               /\ landingType' = IF isLandingSpeed(lander) /\ SamplesFlat
                                 THEN 1 ELSE 2
          ELSE pc' = "draw"]_vars

\* a collision the left sample did not show
C12_LaterSampleMatched ==
    /\ pc = "apply"
    /\ lander.Y > heightMap[LeftX]
    /\ SampleHit

\* the column getAltitude reads
AltitudeX == (lander.X + (lander.length \div 2)) % levelWidth
Columns == 0..(levelWidth - 1)

\* C13: in every state the columns collisionDetected, isFlatLand and
\* getAltitude read lie in [0, levelWidth), and the right sample of a lander
\* reaching past the level's end is (lander.X + length) mod levelWidth.
C13_SamplesInBounds ==
    /\ {LeftX, MiddleX, RightX, AltitudeX} \subseteq Columns
    /\ Columns \subseteq DOMAIN heightMap
    /\ lander.X + lander.length >= levelWidth =>
          RightX = lander.X + lander.length - levelWidth

\* a collision of a lander that reaches past the end of the level
C13_SampledAcrossEnd ==
    /\ pc = "apply"
    /\ lander.X + lander.length >= levelWidth

-----------------------------------------------------------------------------
(* Properties of applyCollision on a crash *)

\* C14: on a Crashed outcome applyCollision takes CRASH_FUEL_COST from fuel
\* modulo 2^16, without a floor, and leaves score alone; after a crash with
\* at most CRASH_FUEL_COST fuel gameOver holds.
C14_CrashCost ==
    [][(pc = "apply" /\ landingType = 2) =>
          /\ fuel' = (fuel - CRASH_FUEL_COST) % Uint16Mod
          /\ score' = score
          /\ fuel <= CRASH_FUEL_COST => gameOver(fuel')]_vars

\* after a crash that took the fuel below zero
C14_CrashedBelowZero ==
    /\ pc = "wait"
    /\ landingType = 2
    /\ fuel > Uint16Mod - CRASH_FUEL_COST

-----------------------------------------------------------------------------
(* Properties of the main loop *)

\* C15: a frame runs handleEvents, applyTick, collisionDetected in that
\* order, and only after a detected collision applyCollision followed by one
\* reset, hardReset if gameOver holds then and softReset otherwise; a frame
\* with a collision ends with the lander at its start position with zero
\* velocity, and a frame without one has no reset and no change of score or
\* fuel by a collision.
C15_FrameOrder ==
    [][/\ pc = "events" => pc' \in {"tick", "exit", "fault"}
       /\ pc = "tick" => pc' = "collide"
       /\ pc = "collide" => /\ pc' \in {"apply", "draw"}
                            /\ GameStateNow' = GameStateNow
       /\ pc = "apply" => pc' = "wait" /\ lander' = lander
       /\ pc = "wait" => /\ pc' \in {"wait", "reset", "exit", "fault"}
                         /\ <<lander, score, fuel>>' = <<lander, score, fuel>>
       /\ pc = "reset" =>
             /\ pc' = "draw"
             /\ GameStateNow' = IF gameOver(fuel) THEN hardReset(GameStateNow)
                                ELSE softReset(GameStateNow)
             /\ lander' = StartLander
             /\ lander'.horVelocity = 0 /\ lander'.vertVelocity = 0
             /\ lander'.X = LanderXStart /\ lander'.Y = LanderYStart
       /\ pc = "draw" => /\ pc' = "events"
                         /\ GameStateNow' = GameStateNow
       /\ pc \notin {"apply", "reset"} => score' = score
       /\ pc \notin {"events", "apply", "reset"} => fuel' = fuel
       /\ pc \in {"exit", "fault"} => pc' = pc]_vars

\* the end of a frame in which a collision ended the game
C15_FrameEndAfterCollision ==
    /\ pc = "draw"
    /\ lander = StartLander
    /\ time.start = TimeUnset

-----------------------------------------------------------------------------
(* Properties of the resets *)

\* C16: hardReset and softReset are idempotent: from every game state the
\* reset applied twice gives the lander, focus point, fuel, score and time
\* fields the reset applied once gives.
C16_ResetIdempotent ==
    /\ hardReset(hardReset(GameStateNow)) = hardReset(GameStateNow)
    /\ softReset(softReset(GameStateNow)) = softReset(GameStateNow)

\* a state about to be reset in which both resets change the lander, the
\* focus point and, for hardReset, the fuel and the time fields
C16_ResetChangesState ==
    /\ pc = "reset"
    /\ lander # StartLander
    /\ focus # StartFocus
    /\ fuel # FUEL_START
    /\ time.start # TimeUnset

-----------------------------------------------------------------------------
(* Properties of handleKey *)

\* the lander after n presses of an arrow key that found fuel
Thrust(l, key, n) ==
    CASE key = "UP" -> [l EXCEPT !.vertVelocity = @ + n * UP_THRUST_POWER]
      [] key = "LEFT" -> [l EXCEPT !.horVelocity = @ + n * LEFT_THRUST_POWER]
      [] key = "RIGHT" -> [l EXCEPT !.horVelocity = @ - n * RIGHT_THRUST_POWER]

\* C17: a press of UP, LEFT or RIGHT with fuel >= 1 takes exactly 1 fuel and
\* moves exactly one velocity component by its increment (UP: vertVelocity
\* + 0.04, LEFT: horVelocity + 0.1, RIGHT: horVelocity - 0.1); with no fuel
\* it changes nothing; any other key changes nothing; thrusting never takes
\* fuel below 0.
C17_ThrustEffect ==
    [][pc = "events" =>
          /\ \A key \in Events :
               LET st == [lander |-> lander, fuel |-> fuel]
               IN  handleKey(st, key) =
                     IF key \in ArrowKeys /\ fuel >= 1
                     THEN [lander |-> Thrust(lander, key, 1), fuel |-> fuel - 1]
                     ELSE st
          \* what the presses of one call of handleEvents add up to
          /\ fuel' \in 0..fuel
          /\ \E key \in ArrowKeys : lander' = Thrust(lander, key, fuel - fuel')
          /\ UP_THRUST_POWER * 25 = UnitsPerPixel
          /\ LEFT_THRUST_POWER * 10 = UnitsPerPixel
          /\ RIGHT_THRUST_POWER * 10 = UnitsPerPixel]_vars

\* a run of presses of one key that used up the last unit of fuel
C17_LastFuelSpent ==
    /\ pc = "tick"
    /\ frames = 0
    /\ fuel = 0
    /\ lander.horVelocity \notin GameHVs

-----------------------------------------------------------------------------
(* Properties of applyTick *)

LevelUnits == levelWidth * UnitsPerPixel

\* C18: after applyTick, for every horizontal velocity, 0 <= realX <
\* levelWidth and lander.X is its integer part; realX has moved by
\* horVelocity modulo levelWidth, vertVelocity has dropped by GRAVITY and
\* realY has moved by the new vertVelocity.
C18_TickMotion ==
    [][pc = "tick" =>
          /\ lander'.realX >= 0 /\ lander'.realX < LevelUnits
          /\ (lander'.realX - (lander.realX + lander.horVelocity)) % LevelUnits = 0
          /\ lander'.X = lander'.realX \div UnitsPerPixel
          /\ lander'.X \in 0..(levelWidth - 1)
          /\ lander'.horVelocity = lander.horVelocity
          /\ lander'.vertVelocity = lander.vertVelocity - GRAVITY
          /\ lander'.realY = lander.realY + lander'.vertVelocity]_vars

\* after a tick at a horizontal speed above one level width per tick
C18_FasterThanLevel ==
    /\ pc = "collide"
    /\ lander.horVelocity < -LevelUnits

\* the lander's bottom, truncated to a pixel, is at or below the height map
\* at one of the sampled columns
BottomAtOrBelowTerrain ==
    \E x \in {LeftX, MiddleX, RightX} : TruncPixels(lander.realY) <= heightMap[x]

\* C19: the vertical position does not wrap: after every tick lander.Y is
\* the truncated realY, also when realY is negative, so a lander that ends a
\* tick at or below the height map at a sampled column is reported by
\* collisionDetected.
C19_NoVerticalWrap ==
    [][/\ pc = "tick" => lander'.Y = TruncPixels(lander'.realY)
       /\ (pc = "collide" /\ BottomAtOrBelowTerrain) => pc' = "apply"]_vars

-----------------------------------------------------------------------------
(* Properties of waitForResponse *)

\* C20: once a qualifying event (a mouse button press, or a key press other
\* than UP, LEFT, RIGHT) is delivered while the collision message is shown,
\* waitForResponse returns: the step that handles the event leaves the wait,
\* no further event being needed.
C20_ReturnsOnQualifyingEvent ==
    [][(pc = "wait" /\ waitForEvent /\ ~waitForEvent') => pc' = "reset"]_vars

\* the events that end the wait: a mouse button press, a key press other than
\* UP, LEFT, RIGHT
Qualifying == {"KEY", "MOUSE"}

\* C21: the wait for the acknowledgement of the collision message is left,
\* other than by the exit of the process, only after a qualifying event has
\* been received; an arrow key or an event of another type is discarded and
\* keeps it waiting; no step of the wait changes fuel, velocity, position or
\* score, and no tick is applied.
C21_WaitHoldsUntilQualifying ==
    [][pc = "wait" =>
          /\ pc' \in {"wait", "reset", "exit", "fault"}
          /\ pc' = "reset" => ~waitForEvent /\ eventBuffer \in Qualifying
          /\ (waitForEvent /\ ~waitForEvent') => eventBuffer' \in Qualifying
          /\ (waitForEvent /\ pc' = "wait"
                /\ eventBuffer' \in ArrowKeys \cup {"OTHER"}) => waitForEvent'
          /\ <<lander, score, fuel, focus>>' = <<lander, score, fuel, focus>>
          /\ time'.elapsed = time.elapsed]_vars

\* the wait goes on after an arrow key was received and discarded
C21_ArrowDiscarded ==
    /\ pc = "wait"
    /\ waitForEvent
    /\ eventBuffer \in ArrowKeys

-----------------------------------------------------------------------------
(* Properties of the landingType buffer *)

\* C22: every call of collisionDetected overwrites the landingType buffer:
\* with 1 on a proper landing, 2 on a crash, and 0 when it detects no
\* collision, so no stale or uninitialized value is left after a call that
\* returns false.
C22_BufferOverwritten ==
    [][pc = "collide" =>
          landingType' = IF SampleHit
                         THEN IF isLandingSpeed(lander) /\ SamplesFlat THEN 1 ELSE 2
                         ELSE 0]_vars

-----------------------------------------------------------------------------
(* Properties of an empty terrain file *)

\* the file was opened and the read has ended without one vertex read
ReadNothing ==
    /\ pc \notin {"open", "read"}
    /\ exitCode # EXIT_FOPEN_FAIL
    /\ ReadVertices(file) = <<>>

\* C23: a terrain file from which no vertex is read ends the load with
\* EXIT_EMPTYFILE_FAIL (5), a code other than EXIT_BADFILE_FAIL (4) and
\* EXIT_FOPEN_FAIL (3); no vertex is synthesized and no height map is built.
C23_EmptyFileExit ==
    /\ EXIT_EMPTYFILE_FAIL = 5
    /\ EXIT_EMPTYFILE_FAIL \notin {EXIT_BADFILE_FAIL, EXIT_FOPEN_FAIL}
    /\ ReadNothing =>
          /\ pc = "exit"
          /\ exitCode = EXIT_EMPTYFILE_FAIL
          /\ vertices = <<>>
          /\ fHeightMap = <<>> /\ heightMap = <<>>

\* the load of a file without vertices has ended
C23_EmptyFileRejected ==
    /\ ReadNothing
    /\ pc = "exit"

-----------------------------------------------------------------------------
(* Properties of findLandingStrips *)

\* the maximal runs of two or more adjacent vertices with equal Y, as pairs
\* <<first index, last index>>
FlatRuns ==
    {r \in (1..Len(vertices)) \X (1..Len(vertices)) :
        /\ r[1] < r[2]
        /\ \A j \in r[1]..r[2] : vertices[j].Y = vertices[r[1]].Y
        /\ r[1] = 1 \/ vertices[r[1] - 1].Y # vertices[r[1]].Y
        /\ r[2] = Len(vertices) \/ vertices[r[2] + 1].Y # vertices[r[2]].Y}

\* the k-th run in list order
FlatRun(k) ==
    CHOOSE r \in FlatRuns : Cardinality({q \in FlatRuns : q[1] < r[1]}) = k - 1

C25_StripLengthPositive ==
    pc = "loaded" => \A k \in 1..Len(flats) : flats[k].length > 0

-----------------------------------------------------------------------------
(* Properties of the interpolation *)

\* vertex i is the only vertex of the list at its x
OnlyAtItsX(i) ==
    \A j \in 1..Len(vertices) : vertices[j].X = vertices[i].X => j = i

\* C26: the height map interpolates the polyline of the vertex list: in exact
\* arithmetic heightMap[x] = y for every vertex (x, y) that is the only one at
\* its x, also for a vertex after a vertical run that ends below its highest
\* vertex.
C26_InterpolatesVertices ==
    Loaded =>
        \A i \in 1..Len(vertices) :
            OnlyAtItsX(i) => heightMap[vertices[i].X] = vertices[i].Y

-----------------------------------------------------------------------------
(* Properties of the fuel counter *)

\* the fuel after applyCollision, computed in unbounded signed integers
SignedFuelAfterCollision ==
    IF landingType = 2 THEN fuel - CRASH_FUEL_COST ELSE fuel

\* the counter read as the signed number it stands for after a collision:
\* a value above FUEL_START is a wrapped negative one
SignedFuelBeforeReset == IF fuel > FUEL_START THEN fuel - Uint16Mod ELSE fuel

\* C27: the game-over test on the wrapped 16-bit counter agrees with signed
\* arithmetic: after every collision gameOver holds exactly when the fuel
\* computed in unbounded integers is at most 0; so every frame starts with
\* 0 <= fuel <= FUEL_START, and a wrapped fuel is not carried into the next
\* frame.
C27_GameOverAgreesWithSigned ==
    [][/\ pc = "apply" => (gameOver(fuel') <=> SignedFuelAfterCollision <= 0)
       /\ pc = "reset" =>
             /\ fuel' \in 0..FUEL_START
             /\ fuel' = IF SignedFuelBeforeReset <= 0 THEN FUEL_START ELSE fuel
       /\ pc = "events" => fuel \in 0..FUEL_START
       /\ pc' = "events" => fuel' \in 0..FUEL_START]_vars

\* a crash has taken the counter below zero and the reset is due
C27_WrappedBeforeReset ==
    /\ pc = "reset"
    /\ fuel > FUEL_START

-----------------------------------------------------------------------------
(* Properties of a quit request during the wait *)

\* C28: a quit request (SDL_QUIT) received while waitForResponse waits, also
\* right after a qualifying event, ends the process through cleanAndExit
\* called with EXIT_SUCCESS; the wait never consumes and drops it.
C28_QuitDuringWaitExits ==
    [][(pc = "wait" /\ eventBuffer' = "QUIT") => CleanAndExit(EXIT_SUCCESS)]_vars

-----------------------------------------------------------------------------
(* Properties of what the resets write *)

\* C29: softReset changes only the lander's position, size and velocity and
\* the focus point, leaving score, fuel, timeStart and timeElapsed as they
\* are; hardReset sets the same lander and focus values and also score = 0,
\* fuel = FUEL_START, timeElapsed = 0 and timeStart unset; neither changes
\* the vertex list, the height map or the strip list.
C29_ResetFrame ==
    [][pc = "reset" =>
          /\ softReset(GameStateNow) =
                [GameStateNow EXCEPT !.lander = StartLander, !.focus = StartFocus]
          /\ hardReset(GameStateNow) =
                [softReset(GameStateNow) EXCEPT
                    !.score = 0, !.fuel = FUEL_START,
                    !.time = [@ EXCEPT !.elapsed = 0, !.start = TimeUnset]]
          /\ lander' = StartLander /\ focus' = StartFocus
          /\ IF gameOver(fuel)
             THEN /\ score' = 0 /\ fuel' = FUEL_START
                  /\ time'.elapsed = 0 /\ time'.start = TimeUnset
             ELSE /\ score' = score /\ fuel' = fuel
                  /\ time'.start = time.start /\ time'.elapsed = time.elapsed
          /\ <<vertices, fHeightMap, heightMap, flats, levelWidth>>'
                = <<vertices, fHeightMap, heightMap, flats, levelWidth>>]_vars

\* after the respawn that followed a landing with a score
C29_RespawnedWithScore ==
    /\ pc = "draw"
    /\ lander = StartLander
    /\ score > 0
    /\ time.start # TimeUnset

-----------------------------------------------------------------------------
(* Properties of cleanAndExit *)

\* C30: on every successfully loaded terrain, also one without any landing
\* strip (firstFlat is NULL), every exit path runs cleanAndExit to its end:
\* no null pointer is dereferenced while the lists are released, and the
\* process ends with the exit code asked for.
C30_CleanExit ==
    [][/\ pc' # "fault"
       /\ (pc = "events" /\ pc' = "exit") => exitCode' = EXIT_SUCCESS
       /\ (pc = "wait" /\ pc' = "exit") =>
             exitCode' = IF eventBuffer' = "QUIT" THEN EXIT_SUCCESS
                         ELSE EXIT_SDLWAIT_FAIL]_vars

====
